---- MODULE Spec2Model ----
(***************************************************************************)
(* Real-time fraud-scoring core of credit-card-fraud-detection:            *)
(*   FraudDetector, DatabaseHandler and TransactionProcessor of            *)
(*   processing/real_time_processor.py, over the SQLite tables of          *)
(*   db/sqlite_handler.py.                                                 *)
(*                                                                         *)
(* Scales.  Money is in whole dollars.  A fraud score is in tenths         *)
(* (0.7 is 7, the clamp 1.0 is 10).  A timestamp is the ISO string of one  *)
(* day, kept as its fields <<hour, minute, second>>; fromisoformat turns   *)
(* it into seconds since midnight.                                         *)
(***************************************************************************)
EXTENDS Integers, Sequences, FiniteSets, TLC

VARIABLES
    card_transactions,       \* FraudDetector.card_transactions: card -> list of transactions
    card_locations,          \* FraudDetector.card_locations: card -> last country (NoCountry: no key)
    result,                  \* the dict returned by the last detect_fraud call (NoResult before)
    evaluated,               \* history: every transaction passed to detect_fraud, in call order
    transaction_batch,       \* DatabaseHandler.transaction_batch
    fraud_batch,             \* DatabaseHandler.fraud_batch
    transactions,            \* table transactions (PRIMARY KEY transaction_id): set of rows
    fraudulent_transactions, \* table fraudulent_transactions (AUTOINCREMENT id): list of rows
    stored,                  \* history: every annotated transaction passed to store_transaction
    flush_calls,             \* history: number of flush_batches calls so far
    flush_failures,          \* history: how many of them failed
    last_flush,              \* history: the last flush_batches call (NoFlush before)
    running,                 \* TransactionProcessor.running
    thread,                  \* TransactionProcessor.thread: "none", or the Thread, "alive" or "dead"
    worker,                  \* where the worker thread is in its loop
    worker_tx,               \* the worker's local `transaction` (NoTransaction: none)
    transaction_queue,       \* the Queue shared with the generator
    use_kafka,               \* USE_KAFKA and self.kafka_consumer: the Kafka path is taken
    kafka_topic,             \* messages of the topic not yet consumed
    kafka_closed,            \* kafka_consumer.close() was called
    caller,                  \* where the controlling thread is in start()/stop()
    produced,                \* history: transactions the source has delivered so far
    calls,                   \* history: start() and stop() calls made so far
    stop_info,               \* history: the stop() call in progress or last returned
    alert_calls,             \* history: the send_fraud_alert calls made, with what they did
    threads,                 \* history: worker threads this processor started, and those that ended
    instances                \* further TransactionProcessor instances of the process: their detectors

detVars == <<card_transactions, card_locations, result, evaluated>>
dbVars == <<transaction_batch, fraud_batch, transactions, fraudulent_transactions,
            stored, flush_calls, flush_failures, last_flush>>
procVars == <<running, thread, worker, worker_tx, transaction_queue, use_kafka,
              kafka_topic, kafka_closed, caller, produced, calls, stop_info>>
vars == <<card_transactions, card_locations, result, evaluated,
          transaction_batch, fraud_batch, transactions, fraudulent_transactions,
          stored, flush_calls, flush_failures, last_flush,
          running, thread, worker, worker_tx, transaction_queue, use_kafka,
          kafka_topic, kafka_closed, caller, produced, calls, stop_info,
          alert_calls, threads, instances>>

-----------------------------------------------------------------------------
(* Configuration of real_time_processor.py (defaults of the os.getenv calls) *)

HIGH_AMOUNT_THRESHOLD == 5000
TRANSACTION_TIME_WINDOW == 30
MAX_TRANSACTIONS_IN_WINDOW == 3
LATE_NIGHT_START_HOUR == 0
LATE_NIGHT_END_HOUR == 5
LATE_NIGHT_AMOUNT == 100

\* Weights added to fraud_score by detect_fraud, and the clamp, in tenths.
WEIGHT_HIGH_AMOUNT == 7
WEIGHT_RAPID == 5
WEIGHT_LOCATION == 8
WEIGHT_DUPLICATE == 9
WEIGHT_LATE_NIGHT == 3
SCORE_MAX == 10

\* The reason a rule contributes to fraud_types, named by its rule.
HighAmount == "High Amount"
RapidTransactions == "Rapid Transactions"
UnusualLocation == "Unusual Location"
DuplicateTransaction == "Duplicate Transaction"
LateNightSpending == "Late Night Spending"

-----------------------------------------------------------------------------
(* Bounds of the exploration *)

\* Transactions evaluated in one behaviour of SpecRules.
MaxTx == 4

\* Flush threshold of store_transaction (BATCH_SIZE, default 10, set by the
\* environment); kept small so that threshold flushes and their retries happen.
BATCH_SIZE == 3
\* Annotated transactions handed to store_transaction in one behaviour of Spec.
MaxStored == 4
\* flush_batches calls that fail in one behaviour.
MaxFlushFailures == 2
\* close() is not called once this many flush_batches calls were made.
MaxFlushCalls == 2
\* Transactions evaluated in one behaviour of SpecWindow: a full window and
\* one transaction more.
MaxWindowTx == 5
\* send_fraud_alert calls in one behaviour of SpecAlerts.
MaxAlerts == 2
\* Transactions processed in one behaviour of SpecFields.
MaxFieldTx == 4
\* store_transaction calls in one behaviour of SpecThreshold: two flushes and more.
MaxThresholdStored == 7
\* Transactions the source delivers in one behaviour of SpecProcessor.
MaxProduced == 3
\* start() and stop() calls in one behaviour of SpecProcessor.
MaxCalls == 3

\* Transactions the generator puts on the shared queue in one behaviour of
\* SpecInstances.
MaxShared == 4

\* Transactions evaluated, and then replayed, in one behaviour of SpecReplay.
MaxReplayTx == 3

\* Transactions the generator offers to the queue in one behaviour of
\* SpecQueue: a full queue and two more.
MaxOffered == 1002
\* The consumer of SpecQueue takes the first MaxTaken transactions at most.
MaxTaken == 2

Cards == {"4111", "4222"}
\* The TransactionProcessor instances constructed in one process.
Processors == {1, 2}
Countries == {"USA", "Canada"}
NoCountry == "-"
NoResult == [transaction_id |-> 0]
NoFlush == [ok |-> TRUE, called |-> FALSE]
NoTransaction == [transaction_id |-> 0]
\* stop_info: called: stop() was called since the last start(); timed_out: its
\* join expired; flushes, flushed, ok: the flush_batches calls it made and
\* their outcome; pending: the ids batched when it was called; appended: the
\* worker called store_transaction after its flush; returned: it has returned.
NoStop == [called |-> FALSE, returned |-> FALSE, flushes |-> 0, timed_out |-> FALSE,
           flushed |-> FALSE, ok |-> TRUE, pending |-> {}, appended |-> FALSE]

\* 04:59:59 is a late-night hour, 05:00:00 is not; both lie in one window.
RuleTimestamps == {<<4, 59, 59>>, <<5, 0, 0>>}
\* 101 is above the late-night amount only; 5000 is at the high-amount threshold.
RuleAmounts == {101, 5000}

Transaction(id, ts, card, amount, merchant, country) ==
    [transaction_id |-> id, timestamp |-> ts, card_number |-> card,
     amount |-> amount, merchant_id |-> merchant, country |-> country]

\* Spec: one card at one time of day; 5000 adds the High Amount reason.
PipelineInputs(id) ==
    { Transaction(id, <<12, 0, 0>>, "4111", a, "M001", "USA") : a \in RuleAmounts }

\* An annotated transaction with no reason, as store_transaction's caller may pass.
CleanResults(id) ==
    { [transaction_id |-> id, timestamp |-> <<12, 0, 0>>, card_number |-> "4222",
       amount |-> 101, merchant_id |-> "M002", country |-> "USA",
       is_fraudulent |-> FALSE, fraud_types |-> <<>>, fraud_score |-> 0] }

\* SpecProcessor: the source delivers one kind of transaction, complete or
\* lacking a key that detect_fraud reads, or one that store_transaction reads.
SourceInputs(id) ==
    { [transaction_id |-> id, timestamp |-> <<12, 0, 0>>, card_number |-> "4111",
       amount |-> 101, merchant_id |-> "M001", country |-> "USA", absent |-> a] :
        a \in {{}, {"country"}, {"city"}} }

\* The keys the data model calls essential, and the other keys of a transaction.
Essential == {"card_number", "amount", "timestamp", "country"}
NonEssential ==
    {"city", "latitude", "longitude", "merchant_id", "merchant_name", "merchant_category"}

\* SpecFields: one kind of transaction, complete or lacking one key.
FieldInputs(id) ==
    { [transaction_id |-> id, timestamp |-> <<12, 0, 0>>, card_number |-> "4111",
       amount |-> 101, merchant_id |-> "M001", country |-> "USA", absent |-> a] :
        a \in {{}} \cup { {k} : k \in Essential \cup NonEssential } }

\* 12:00:00 and 12:00:30 lie in one window (the cutoff is kept), 12:00:00 and
\* 12:00:31 do not; the source may deliver them in any order.
WindowTimestamps == {<<12, 0, 0>>, <<12, 0, 30>>, <<12, 0, 31>>}

\* SpecWindow: the same purchase at three times of day, on either card.
WindowInputs(id) ==
    { Transaction(id, ts, c, 101, "M001", "USA") : ts \in WindowTimestamps, c \in Cards }

\* SpecAlerts: a flagged transaction, with or without its transaction_id key.
AlertInputs(id) ==
    { [transaction_id |-> id, timestamp |-> <<12, 0, 0>>, card_number |-> "4111",
       amount |-> 5000, merchant_id |-> "M001", country |-> "USA", absent |-> a] :
        a \in {{}, {"transaction_id"}} }

\* SpecReplay: what the wall clock may show when detect_fraud is called: the
\* time of the transactions, or hours later (a backfill).
WallClock == {<<12, 0, 0>>, <<18, 0, 0>>}

\* SpecQueue: the generator offers one kind of transaction.
QueueInputs(id) == { Transaction(id, <<12, 0, 0>>, "4111", 101, "M001", "USA") }

\* SpecInstances: the same purchase on either card.
SharedInputs(id) ==
    { Transaction(id, <<12, 0, 0>>, c, 101, "M001", "USA") : c \in Cards }

RuleInputs(id) ==
    { Transaction(id, ts, c, a, "M001", k) :
        ts \in RuleTimestamps, c \in Cards, a \in RuleAmounts, k \in Countries }

-----------------------------------------------------------------------------
(* FraudDetector *)

\* datetime.datetime.fromisoformat(t), as seconds since midnight
fromisoformat(t) == t[1] * 3600 + t[2] * 60 + t[3]

\* current_time.hour
hour(t) == t[1]

\* Mutant of clean_old_transactions: nothing is removed.
clean_nothing(list, current_time) == list

clean_old_transactions(list, current_time) ==
    LET cutoff_time == current_time - TRANSACTION_TIME_WINDOW
    IN  SelectSeq(list, LAMBDA t : fromisoformat(t.timestamp) >= cutoff_time)

check_high_amount(tx) == tx.amount >= HIGH_AMOUNT_THRESHOLD

\* The card's list after check_rapid_transactions: cleaned, then the current
\* transaction appended.
rapid_list(list, tx) ==
    Append(clean_old_transactions(list, fromisoformat(tx.timestamp)), tx)

check_rapid_transactions(list, tx) ==
    Len(rapid_list(list, tx)) > MAX_TRANSACTIONS_IN_WINDOW

\* Mutant of check_unusual_location: a card without a country also triggers.
check_unusual_location_cold(last_country, tx) == last_country # tx.country

\* if card_number in self.card_locations: ... if last_country != current_country
check_unusual_location(last_country, tx) ==
    last_country # NoCountry /\ last_country # tx.country

\* The card's list as check_duplicate_transaction sees it: `list` is what
\* check_rapid_transactions left, cleaned again.
duplicate_list(list, tx) ==
    clean_old_transactions(list, fromisoformat(tx.timestamp))

check_duplicate_transaction(list, tx) ==
    \E i \in 1..Len(duplicate_list(list, tx)) :
        /\ duplicate_list(list, tx)[i].merchant_id = tx.merchant_id
        /\ duplicate_list(list, tx)[i].amount = tx.amount

check_late_night_spending(tx) ==
    /\ LATE_NIGHT_START_HOUR <= hour(tx.timestamp)
    /\ hour(tx.timestamp) < LATE_NIGHT_END_HOUR
    /\ tx.amount > LATE_NIGHT_AMOUNT

\* fraud_types.append(reason) when the rule returned a reason
AppendIf(list, triggered, reason) == IF triggered THEN Append(list, reason) ELSE list

\* Mutant of fraud_types_of: the duplicate check reported before the location check.
fraud_types_duplicate_first(high, rapid, location, duplicate, late) ==
    AppendIf(AppendIf(AppendIf(AppendIf(AppendIf(<<>>,
        high, HighAmount),
        rapid, RapidTransactions),
        duplicate, DuplicateTransaction),
        location, UnusualLocation),
        late, LateNightSpending)

\* fraud_types as detect_fraud builds it, one append per triggered rule
fraud_types_of(high, rapid, location, duplicate, late) ==
    AppendIf(AppendIf(AppendIf(AppendIf(AppendIf(<<>>,
        high, HighAmount),
        rapid, RapidTransactions),
        location, UnusualLocation),
        duplicate, DuplicateTransaction),
        late, LateNightSpending)

\* fraud_score before normalisation: += weight per triggered rule
score_sum(high, rapid, location, duplicate, late) ==
    (IF high THEN WEIGHT_HIGH_AMOUNT ELSE 0)
    + (IF rapid THEN WEIGHT_RAPID ELSE 0)
    + (IF location THEN WEIGHT_LOCATION ELSE 0)
    + (IF duplicate THEN WEIGHT_DUPLICATE ELSE 0)
    + (IF late THEN WEIGHT_LATE_NIGHT ELSE 0)

\* Mutant of normalize_score: the sum is returned as it is.
normalize_score_unclamped(s) == s

\* fraud_score = min(fraud_score, 1.0)
normalize_score(s) == IF s < SCORE_MAX THEN s ELSE SCORE_MAX

\* Mutant of is_fraudulent_of: one reason is not enough.
is_fraudulent_if_several(fraud_types) == Len(fraud_types) > 1

\* result['is_fraudulent'] = len(fraud_types) > 0
is_fraudulent_of(fraud_types) == Len(fraud_types) > 0

\* Mutant of set_item: the value is stored under every key.
set_every_item(dict, key, value) == [k \in DOMAIN dict |-> value]

\* self.card_transactions[card_number] = ..., self.card_locations[card_number]
\* = ...: the entry of this card is replaced (or, by append, extended); the
\* entries of the other keys stay.
set_item(dict, key, value) == [dict EXCEPT ![key] = value]

\* detect_fraud(transaction) on a detector whose dictionaries are ct and cl:
\* the returned dict and the dictionaries it leaves.
detect_fraud(ct, cl, tx) ==
    LET card == tx.card_number
        high == check_high_amount(tx)
        rapid == check_rapid_transactions(ct[card], tx)
        list1 == rapid_list(ct[card], tx)
        location == check_unusual_location(cl[card], tx)
        duplicate == check_duplicate_transaction(list1, tx)
        list2 == duplicate_list(list1, tx)
        late == check_late_night_spending(tx)
        types == fraud_types_of(high, rapid, location, duplicate, late)
    IN  [result |-> [transaction_id |-> tx.transaction_id,
                     timestamp |-> tx.timestamp,
                     card_number |-> tx.card_number,
                     amount |-> tx.amount,
                     merchant_id |-> tx.merchant_id,
                     country |-> tx.country,
                     is_fraudulent |-> is_fraudulent_of(types),
                     fraud_types |-> types,
                     fraud_score |->
                        normalize_score(score_sum(high, rapid, location, duplicate, late))],
         card_transactions |-> set_item(ct, card, list2),
         card_locations |-> set_item(cl, card, tx.country)]

\* Mutant of detect_fraud_at: the windows are counted back from the wall clock.
detect_fraud_wall_clock(ct, cl, tx, now) ==
    LET d == detect_fraud(ct, cl, [tx EXCEPT !.timestamp = now])
    IN  [result |-> [d.result EXCEPT !.timestamp = tx.timestamp],
         card_transactions |-> d.card_transactions,
         card_locations |-> d.card_locations]

\* detect_fraud(transaction) called while the wall clock shows `now`: no
\* statement of FraudDetector reads the clock.
detect_fraud_at(ct, cl, tx, now) == detect_fraud(ct, cl, tx)

\* __init__: self.fraud_detector = FraudDetector(), a detector of its own for
\* each TransactionProcessor; with it, what the instance has evaluated, the
\* verdicts returned and the wall-clock time of each call.
NewInstance ==
    [card_transactions |-> [c \in Cards |-> <<>>],
     card_locations |-> [c \in Cards |-> NoCountry],
     evaluated |-> <<>>, verdicts |-> <<>>, clock |-> <<>>]

\* The instance after its detector has evaluated tx at wall-clock time now.
Evaluate(inst, tx, now) ==
    LET d == detect_fraud_at(inst.card_transactions, inst.card_locations, tx, now)
    IN  [card_transactions |-> d.card_transactions,
         card_locations |-> d.card_locations,
         evaluated |-> Append(inst.evaluated, tx),
         verdicts |-> Append(inst.verdicts, d.result),
         clock |-> Append(inst.clock, now)]

-----------------------------------------------------------------------------
(* Transactions that lack keys.  A transaction dict is kept as the values   *)
(* of its modelled keys together with `absent`, the keys the dict does not  *)
(* hold; transaction[k] raises KeyError for k in absent, and the value kept *)
(* for such a key is never read.                                            *)

Absent(tx) == IF "absent" \in DOMAIN tx THEN tx.absent ELSE {}

\* Some key of keys is not in the dict: transaction[key] raises KeyError.
KeyError(tx, keys) == keys \cap Absent(tx) # {}

\* past_tx['merchant_id'] == transaction['merchant_id'] and
\* past_tx['amount'] == transaction['amount'], when no key is missing
same_merchant_and_amount(past_tx, tx) ==
    past_tx.merchant_id = tx.merchant_id /\ past_tx.amount = tx.amount

\* check_duplicate_transaction raises KeyError: its loop reaches, before any
\* match, an entry for which one of the two merchant_id lookups fails; or it
\* finds a match and formats a reason with transaction['merchant_name'].
duplicate_raises(list, tx) ==
    LET unreadable(i) == KeyError(list[i], {"merchant_id"}) \/ KeyError(tx, {"merchant_id"})
        matches(i) == ~unreadable(i) /\ same_merchant_and_amount(list[i], tx)
        reached(i) == \A j \in 1..(i - 1) : ~unreadable(j) /\ ~matches(j)
    IN  \E i \in 1..Len(list) :
            /\ reached(i)
            /\ unreadable(i) \/ (matches(i) /\ KeyError(tx, {"merchant_name"}))

\* detect_fraud(transaction) on a transaction that may lack keys: raised tells
\* whether it raised KeyError, at the first lookup that fails in the order
\* of the code; the dictionaries are as the checks that ran have left them.
detect_fraud_or_raise(ct, cl, tx) ==
    IF KeyError(tx, {"amount", "card_number", "timestamp"})
    THEN [raised |-> TRUE, card_transactions |-> ct, card_locations |-> cl]
    ELSE LET card == tx.card_number
             list1 == rapid_list(ct[card], tx)
             ct1 == set_item(ct, card, list1)
             cl1 == set_item(cl, card, tx.country)
             list2 == duplicate_list(list1, tx)
             ct2 == set_item(ct, card, list2)
         IN  IF KeyError(tx, {"country"})
             THEN [raised |-> TRUE, card_transactions |-> ct1, card_locations |-> cl]
             ELSE IF duplicate_raises(list2, tx)
             THEN [raised |-> TRUE, card_transactions |-> ct2, card_locations |-> cl1]
             ELSE [raised |-> FALSE,
                   result |-> detect_fraud(ct, cl, tx).result,
                   card_transactions |-> detect_fraud(ct, cl, tx).card_transactions,
                   card_locations |-> detect_fraud(ct, cl, tx).card_locations]

\* The keys store_transaction copies into tx_data.
StoredKeys ==
    {"transaction_id", "timestamp", "card_number", "amount", "merchant_id",
     "merchant_name", "merchant_category", "country", "city", "latitude", "longitude"}

\* store_transaction(result) raises KeyError while it builds tx_data, before
\* it appends anything (result is a copy of the transaction: the same keys).
store_raises(tx) == KeyError(tx, StoredKeys)

\* The exception classes raised in the model, all subclasses of Exception.
Exceptions == {"KeyError", "Full", "Exception"}

\* Mutant of except_Exception: the handler catches nothing.
except_nothing(error) == FALSE

\* `except Exception as e:` catches the error.
except_Exception(error) == error \in Exceptions

\* What _process_transaction(transaction) does: "stored" when detect_fraud and
\* store_transaction both returned, else the call that raised.
process_outcome(ct, cl, tx) ==
    IF detect_fraud_or_raise(ct, cl, tx).raised THEN "detect_fraud raised"
    ELSE IF store_raises(tx) THEN "store_transaction raised"
    ELSE "stored"

\* The error leaves _process_transaction: it raised and its handler did not
\* catch it.
escapes(ct, cl, tx) ==
    process_outcome(ct, cl, tx) # "stored" /\ ~except_Exception("KeyError")

\* What is kept as `result` of a detect_fraud call that raised.
ErrorResult(tx) == [transaction_id |-> tx.transaction_id, error |-> "KeyError"]

-----------------------------------------------------------------------------
(* alert_manager.send_fraud_alert.  A channel's send_fraud_alert returns     *)
(* True or False, or raises.                                                 *)

ChannelOutcomes == {"True", "False", "raise"}

\* One try block of send_fraud_alert: the channel is called once; its bool is
\* put in results and a line is logged that formats
\* transaction['transaction_id']; what the channel or the log line raises is
\* caught, the entry then being False; propagated: the handler did not catch.
try_channel(outcome, transaction) ==
    LET error == IF outcome = "raise" THEN "Exception"
                 ELSE IF KeyError(transaction, {"transaction_id"}) THEN "KeyError"
                 ELSE "none"
    IN  [calls |-> 1,
         value |-> (error = "none" /\ outcome = "True"),
         propagated |-> (error # "none" /\ ~except_Exception(error))]

\* send_fraud_alert(transaction) when the Telegram and the email channel
\* behave as telegram and email: the map returned (raised: the call raised
\* instead) and the calls made to each channel.
send_fraud_alert(transaction, telegram, email) ==
    LET t == try_channel(telegram, transaction)
        e == try_channel(email, transaction)
    IN  IF t.propagated
        THEN [results |-> [k \in {} |-> FALSE], raised |-> TRUE,
              telegram_calls |-> t.calls, email_calls |-> 0]
        ELSE IF e.propagated
        THEN [results |-> [k \in {"telegram"} |-> t.value], raised |-> TRUE,
              telegram_calls |-> t.calls, email_calls |-> e.calls]
        ELSE [results |-> [k \in {"telegram", "email"} |->
                              IF k = "telegram" THEN t.value ELSE e.value],
              raised |-> FALSE,
              telegram_calls |-> t.calls, email_calls |-> e.calls]

-----------------------------------------------------------------------------
(* SQLiteHandler: the two tables DatabaseHandler writes *)

\* sqlite3 binds the Python bool of is_fraudulent to the INTEGER column
bool_to_integer(b) == IF b THEN 1 ELSE 0

\* Mutant of insert_transaction: a plain INSERT that keeps the stored row.
insert_transaction_keeping(table, transaction_data) ==
    table \cup { [transaction_id |-> transaction_data.transaction_id,
                  timestamp |-> transaction_data.timestamp,
                  card_number |-> transaction_data.card_number,
                  amount |-> transaction_data.amount,
                  merchant_id |-> transaction_data.merchant_id,
                  country |-> transaction_data.country,
                  is_fraudulent |-> bool_to_integer(transaction_data.is_fraudulent)] }

\* INSERT OR REPLACE INTO transactions: the row with this PRIMARY KEY, if any,
\* is replaced.
insert_transaction(table, transaction_data) ==
    { row \in table : row.transaction_id # transaction_data.transaction_id }
    \cup { [transaction_id |-> transaction_data.transaction_id,
            timestamp |-> transaction_data.timestamp,
            card_number |-> transaction_data.card_number,
            amount |-> transaction_data.amount,
            merchant_id |-> transaction_data.merchant_id,
            country |-> transaction_data.country,
            is_fraudulent |-> bool_to_integer(transaction_data.is_fraudulent)] }

\* INSERT INTO fraudulent_transactions: always a new row, id AUTOINCREMENT.
insert_fraudulent_transaction(table, fraud_data) ==
    Append(table, [id |-> Len(table) + 1,
                   transaction_id |-> fraud_data.transaction_id,
                   timestamp |-> fraud_data.timestamp,
                   card_number |-> fraud_data.card_number,
                   amount |-> fraud_data.amount,
                   merchant_id |-> fraud_data.merchant_id,
                   country |-> fraud_data.country,
                   fraud_type |-> fraud_data.fraud_type,
                   fraud_score |-> fraud_data.fraud_score])

-----------------------------------------------------------------------------
(* DatabaseHandler *)

\* ', '.join(fraud_types): the reasons with a separator between neighbours,
\* kept as the list of the string's pieces.
RECURSIVE join(_)
join(list) ==
    IF Len(list) = 0 THEN <<>>
    ELSE IF Len(list) = 1 THEN <<list[1]>>
    ELSE <<list[1], ", ">> \o join(Tail(list))

tx_data_of(transaction) ==
    [transaction_id |-> transaction.transaction_id,
     timestamp |-> transaction.timestamp,
     card_number |-> transaction.card_number,
     amount |-> transaction.amount,
     merchant_id |-> transaction.merchant_id,
     country |-> transaction.country,
     is_fraudulent |-> transaction.is_fraudulent]

fraud_data_of(transaction) ==
    [transaction_id |-> transaction.transaction_id,
     timestamp |-> transaction.timestamp,
     card_number |-> transaction.card_number,
     amount |-> transaction.amount,
     merchant_id |-> transaction.merchant_id,
     country |-> transaction.country,
     is_fraudulent |-> transaction.is_fraudulent,
     fraud_type |-> join(transaction.fraud_types),
     fraud_score |-> transaction.fraud_score]

\* What the storage does during one flush_batches call: the connection check
\* passes or not, and fail_at is the insert call (counted over the transaction
\* batch, then the fraud batch) that raises; 0 when none does.
FlushOutcomes(tb, fb) ==
    { [connection |-> FALSE, fail_at |-> 0] }
    \cup { [connection |-> TRUE, fail_at |-> k] : k \in 0..(Len(tb) + Len(fb)) }

NoFailure == [connection |-> TRUE, fail_at |-> 0]

Failed(o) == ~o.connection \/ o.fail_at # 0

RECURSIVE insert_transactions(_, _, _)
\* the first n insert_transaction calls of the loop over the batch
insert_transactions(table, batch, n) ==
    IF n = 0 THEN table
    ELSE insert_transaction(insert_transactions(table, batch, n - 1), batch[n])

RECURSIVE insert_fraudulent_transactions(_, _, _)
\* the first n insert_fraudulent_transaction calls of the loop over the batch
insert_fraudulent_transactions(table, batch, n) ==
    IF n = 0 THEN table
    ELSE insert_fraudulent_transaction(
            insert_fraudulent_transactions(table, batch, n - 1), batch[n])

\* Mutant of transaction_batch_after: cleared also when an insert raised.
transaction_batch_cleared(tb, o) == <<>>

\* The batch after its loop: cleared when the loop ran to its end.
transaction_batch_after(tb, o) ==
    IF o.fail_at = 0 \/ o.fail_at > Len(tb) THEN <<>> ELSE tb

fraud_batch_after(tb, fb, o) ==
    IF o.fail_at = 0 THEN <<>> ELSE fb

\* Mutant of flush_batches: the fraud batch is written before the
\* all-transactions batch.
flush_batches_fraud_first(tb, fb, T, F, o) ==
    IF ~o.connection
    THEN [transaction_batch |-> tb, fraud_batch |-> fb,
          transactions |-> T, fraudulent_transactions |-> F]
    ELSE LET written == IF o.fail_at = 0 THEN Len(tb) + Len(fb) ELSE o.fail_at - 1
             n_fraud == IF written < Len(fb) THEN written ELSE Len(fb)
             n_tx == written - n_fraud
         IN  [transaction_batch |-> IF o.fail_at = 0 THEN <<>> ELSE tb,
              fraud_batch |-> IF o.fail_at = 0 \/ o.fail_at > Len(fb) THEN <<>> ELSE fb,
              transactions |-> insert_transactions(T, tb, n_tx),
              fraudulent_transactions |-> insert_fraudulent_transactions(F, fb, n_fraud)]

\* flush_batches() under storage outcome o, on batches tb, fb and tables T, F.
flush_batches(tb, fb, T, F, o) ==
    IF ~o.connection
    THEN [transaction_batch |-> tb, fraud_batch |-> fb,
          transactions |-> T, fraudulent_transactions |-> F]
    ELSE LET written == IF o.fail_at = 0 THEN Len(tb) + Len(fb) ELSE o.fail_at - 1
             n_tx == IF written < Len(tb) THEN written ELSE Len(tb)
             n_fraud == written - n_tx
         IN  [transaction_batch |-> transaction_batch_after(tb, o),
              fraud_batch |-> fraud_batch_after(tb, fb, o),
              transactions |-> insert_transactions(T, tb, n_tx),
              fraudulent_transactions |-> insert_fraudulent_transactions(F, fb, n_fraud)]

\* The batches store_transaction(transaction) builds before its threshold test.
append_transaction(tb, transaction) == Append(tb, tx_data_of(transaction))

append_fraud(fb, transaction) ==
    IF transaction.is_fraudulent THEN Append(fb, fraud_data_of(transaction)) ELSE fb

\* Mutant of flush_due: the flush waits for one entry more.
flush_due_above(tb) == Len(tb) > BATCH_SIZE

\* if len(self.transaction_batch) >= BATCH_SIZE
flush_due(tb) == Len(tb) >= BATCH_SIZE

\* The transaction ids of the entries of a batch (or of the rows of a list).
BatchIds(batch) == { batch[i].transaction_id : i \in 1..Len(batch) }

-----------------------------------------------------------------------------
(* The generator's side of the shared queue (simulate_transactions.py) *)

\* transaction_queue = Queue(maxsize=1000)
QUEUE_MAXSIZE == 1000

\* Mutant of put: the queue takes the item whatever it holds.
put_unbounded(queue, item) == [queue |-> Append(queue, item), error |-> "none"]

\* Queue.put(item, block=False): when the queue holds maxsize entries it
\* raises queue.Full at once instead of waiting; else the item goes to the end.
put(queue, item) ==
    IF Len(queue) >= QUEUE_MAXSIZE
    THEN [queue |-> queue, error |-> "Full"]
    ELSE [queue |-> Append(queue, item), error |-> "none"]

\* send_to_queue(transaction): the put inside try / except Exception, which
\* logs; raised: an error left send_to_queue.
send_to_queue(queue, transaction) ==
    LET p == put(queue, transaction)
    IN  [queue |-> p.queue,
         raised |-> (p.error # "none" /\ ~except_Exception(p.error))]

-----------------------------------------------------------------------------
(* Initial state: a fresh FraudDetector and DatabaseHandler over empty tables *)

InitCore ==
    /\ card_transactions = [c \in Cards |-> <<>>]
    /\ card_locations = [c \in Cards |-> NoCountry]
    /\ result = NoResult
    /\ evaluated = <<>>
    /\ transaction_batch = <<>>
    /\ fraud_batch = <<>>
    /\ transactions = {}
    /\ fraudulent_transactions = <<>>
    /\ stored = <<>>
    /\ flush_calls = 0
    /\ flush_failures = 0
    /\ last_flush = NoFlush
    /\ running = FALSE
    /\ thread = "none"
    /\ worker = "idle"
    /\ worker_tx = NoTransaction
    /\ transaction_queue = <<>>
    /\ kafka_topic = <<>>
    /\ kafka_closed = FALSE
    /\ caller = "idle"
    /\ produced = 0
    /\ calls = 0
    /\ stop_info = NoStop
    /\ alert_calls = <<>>
    /\ threads = [started |-> 0, ended |-> 0]
    /\ instances = [p \in Processors |-> NewInstance]

\* The default configuration: USE_KAFKA is false.
Init == InitCore /\ use_kafka = FALSE

-----------------------------------------------------------------------------
(* SpecRules: one FraudDetector, detect_fraud called on arbitrary transactions *)

CallDetectFraud(tx) ==
    /\ UNCHANGED <<alert_calls, threads, instances>>
    /\ result' = detect_fraud(card_transactions, card_locations, tx).result
    /\ card_transactions' = detect_fraud(card_transactions, card_locations, tx).card_transactions
    /\ card_locations' = detect_fraud(card_transactions, card_locations, tx).card_locations
    /\ evaluated' = Append(evaluated, tx)
    /\ UNCHANGED dbVars
    /\ UNCHANGED procVars

EvaluateRuleInput ==
    /\ Len(evaluated) < MaxTx
    /\ \E tx \in RuleInputs(Len(evaluated) + 1) : CallDetectFraud(tx)

NextRules == EvaluateRuleInput

SpecRules == Init /\ [][NextRules]_vars

-----------------------------------------------------------------------------
(* Spec: one FraudDetector and one DatabaseHandler driven by one caller:    *)
(* _process_transaction, store_transaction and flush_batches (close), over  *)
(* a storage that may fail at the connection check or at any insert.        *)

\* The outcomes the storage may still produce.
Allowed(o) == Failed(o) => flush_failures < MaxFlushFailures

LogEntry(o, tb, fb, after) ==
    [ok |-> ~Failed(o), called |-> TRUE, outcome |-> o,
     rows_before |-> { row.transaction_id : row \in transactions },
     transaction_batch_before |-> tb, fraud_batch_before |-> fb,
     transaction_batch_after |-> after.transaction_batch,
     fraud_batch_after |-> after.fraud_batch]

\* The DatabaseHandler part of a flush_batches() call under outcome o.
FlushBatches(tb, fb, o) ==
    LET after == flush_batches(tb, fb, transactions, fraudulent_transactions, o)
    IN  /\ transaction_batch' = after.transaction_batch
        /\ fraud_batch' = after.fraud_batch
        /\ transactions' = after.transactions
        /\ fraudulent_transactions' = after.fraudulent_transactions
        /\ flush_calls' = flush_calls + 1
        /\ flush_failures' = flush_failures + (IF Failed(o) THEN 1 ELSE 0)
        /\ last_flush' = LogEntry(o, tb, fb, after)

\* store_transaction(transaction): append, then flush at the threshold.
StoreTransaction(transaction) ==
    LET tb == append_transaction(transaction_batch, transaction)
        fb == append_fraud(fraud_batch, transaction)
    IN  /\ stored' = Append(stored, transaction)
        /\ IF flush_due(tb)
           THEN \E o \in FlushOutcomes(tb, fb) : Allowed(o) /\ FlushBatches(tb, fb, o)
           ELSE /\ transaction_batch' = tb
                /\ fraud_batch' = fb
                /\ UNCHANGED <<transactions, fraudulent_transactions,
                               flush_calls, flush_failures, last_flush>>

\* _process_transaction(transaction): detect_fraud, then store_transaction.
\* Either call may raise KeyError on a transaction that lacks keys; what the
\* call did before it raised stays done.
ProcessTransaction(tx) ==
    LET d == detect_fraud_or_raise(card_transactions, card_locations, tx)
    IN  /\ card_transactions' = d.card_transactions
        /\ card_locations' = d.card_locations
        /\ evaluated' = Append(evaluated, tx)
        /\ IF d.raised
           THEN /\ result' = ErrorResult(tx)
                /\ UNCHANGED dbVars
           ELSE /\ result' = d.result
                /\ IF store_raises(tx)
                   THEN UNCHANGED dbVars
                   ELSE StoreTransaction(d.result)

Process ==
    /\ UNCHANGED <<alert_calls, threads, instances>>
    /\ Len(stored) < MaxStored
    /\ \E tx \in PipelineInputs(Len(stored) + 1) : ProcessTransaction(tx)
    /\ UNCHANGED procVars

StoreClean ==
    /\ UNCHANGED <<alert_calls, threads, instances>>
    /\ Len(stored) < MaxStored
    /\ \E r \in CleanResults(Len(stored) + 1) : StoreTransaction(r)
    /\ UNCHANGED detVars
    /\ UNCHANGED procVars

\* close(): flush_batches() whatever the batch sizes.
Close ==
    /\ UNCHANGED <<alert_calls, threads, instances>>
    /\ flush_calls < MaxFlushCalls
    /\ \E o \in FlushOutcomes(transaction_batch, fraud_batch) :
          Allowed(o) /\ FlushBatches(transaction_batch, fraud_batch, o)
    /\ UNCHANGED <<stored>>
    /\ UNCHANGED detVars
    /\ UNCHANGED procVars

Next == Process \/ StoreClean \/ Close

Spec == Init /\ [][Next]_vars

-----------------------------------------------------------------------------
(* SpecWindow: detect_fraud called on transactions whose timestamps lie     *)
(* inside and outside one window, delivered in any order.                   *)

EvaluateWindowInput ==
    /\ Len(evaluated) < MaxWindowTx
    /\ \E tx \in WindowInputs(Len(evaluated) + 1) : CallDetectFraud(tx)

NextWindow == EvaluateWindowInput

SpecWindow == Init /\ [][NextWindow]_vars

-----------------------------------------------------------------------------
(* SpecAlerts: send_fraud_alert of alert_manager called on flagged           *)
(* transactions, each channel behaving in any of its three ways.            *)

SendFraudAlert ==
    /\ Len(alert_calls) < MaxAlerts
    /\ \E tx \in AlertInputs(Len(alert_calls) + 1), t \in ChannelOutcomes,
          e \in ChannelOutcomes :
          alert_calls' = Append(alert_calls,
              [transaction |-> tx, telegram |-> t, email |-> e,
               returned |-> send_fraud_alert(tx, t, e)])
    /\ UNCHANGED <<threads, instances>>
    /\ UNCHANGED detVars
    /\ UNCHANGED dbVars
    /\ UNCHANGED procVars

NextAlerts == SendFraudAlert

SpecAlerts == Init /\ [][NextAlerts]_vars

-----------------------------------------------------------------------------
(* SpecFields: _process_transaction called on transactions that may lack a  *)
(* key, over the same storage.                                              *)

ProcessFieldInput ==
    /\ UNCHANGED <<alert_calls, threads, instances>>
    /\ Len(evaluated) < MaxFieldTx
    /\ \E tx \in FieldInputs(Len(evaluated) + 1) : ProcessTransaction(tx)
    /\ UNCHANGED procVars

NextFields == ProcessFieldInput

SpecFields == Init /\ [][NextFields]_vars

-----------------------------------------------------------------------------
(* SpecThreshold: store_transaction called over a storage that never fails, *)
(* and nothing else: every flush_batches call is a threshold flush.         *)

ProcessStored ==
    /\ UNCHANGED <<alert_calls, threads, instances>>
    /\ Len(stored) < MaxThresholdStored
    /\ \E tx \in PipelineInputs(Len(stored) + 1) : ProcessTransaction(tx)
    /\ flush_failures' = 0
    /\ UNCHANGED procVars

StoreCleanStored ==
    /\ UNCHANGED <<alert_calls, threads, instances>>
    /\ Len(stored) < MaxThresholdStored
    /\ \E r \in CleanResults(Len(stored) + 1) : StoreTransaction(r)
    /\ flush_failures' = 0
    /\ UNCHANGED detVars
    /\ UNCHANGED procVars

NextThreshold == ProcessStored \/ StoreCleanStored

SpecThreshold == Init /\ [][NextThreshold]_vars

-----------------------------------------------------------------------------
(* SpecProcessor: one TransactionProcessor.  A controlling thread calls      *)
(* start() and stop(); the worker thread runs _process_from_queue or         *)
(* _process_from_kafka; the source puts transactions on the queue or the     *)
(* topic.  Steps of different threads interleave; one _process_transaction   *)
(* call and one flush_batches call are each taken as one step.               *)

\* The generator's send_to_queue, or a producer of the topic.
Deliver ==
    /\ UNCHANGED <<alert_calls, threads, instances>>
    /\ produced < MaxProduced
    /\ produced' = produced + 1
    /\ \E tx \in SourceInputs(produced + 1) :
          IF use_kafka
          THEN /\ kafka_topic' = Append(kafka_topic, tx)
               /\ UNCHANGED transaction_queue
          ELSE /\ transaction_queue' = send_to_queue(transaction_queue, tx).queue
               /\ UNCHANGED kafka_topic
    /\ UNCHANGED <<running, thread, worker, worker_tx, use_kafka, kafka_closed,
                   caller, calls, stop_info>>
    /\ UNCHANGED detVars
    /\ UNCHANGED dbVars

\* Mutant of start_returns_early: start() never returns early.
start_never_early(t) == FALSE

\* if self.thread and self.thread.is_alive(): return
start_returns_early(t) == t = "alive"

\* start(): nothing when the thread is alive; else a new worker thread is
\* created, kept in self.thread and started.
Start ==
    /\ UNCHANGED <<alert_calls, instances>>
    /\ caller = "idle"
    /\ calls < MaxCalls
    /\ calls' = calls + 1
    /\ IF start_returns_early(thread)
       THEN UNCHANGED <<running, thread, worker, stop_info, threads>>
       ELSE /\ running' = TRUE
            /\ thread' = "alive"
            /\ worker' = IF use_kafka THEN "next" ELSE "while"
            /\ stop_info' = NoStop
            /\ threads' = [threads EXCEPT !.started = @ + 1]
    /\ UNCHANGED <<worker_tx, transaction_queue, use_kafka, kafka_topic,
                   kafka_closed, caller, produced>>
    /\ UNCHANGED detVars
    /\ UNCHANGED dbVars

\* stop(), first statement: self.running = False.
StopBegin ==
    /\ UNCHANGED <<alert_calls, threads, instances>>
    /\ caller = "idle"
    /\ calls < MaxCalls
    /\ calls' = calls + 1
    /\ running' = FALSE
    /\ caller' = "join"
    /\ stop_info' = [NoStop EXCEPT !.called = TRUE,
                                    !.pending = BatchIds(transaction_batch)]
    /\ UNCHANGED <<thread, worker, worker_tx, transaction_queue, use_kafka,
                   kafka_topic, kafka_closed, produced>>
    /\ UNCHANGED detVars
    /\ UNCHANGED dbVars

\* The worker cannot end within the 5 seconds of join: it is inside
\* _process_transaction (whose inserts may each wait on a locked database),
\* or blocked in the consumer's iterator, which waits without a timeout.
JoinCanExpire ==
    /\ thread = "alive"
    /\ worker = "process" \/ (use_kafka /\ worker = "next")

\* stop(): if self.thread: self.thread.join(timeout=5.0)
StopJoin ==
    /\ UNCHANGED <<alert_calls, threads, instances>>
    /\ caller = "join"
    /\ \/ /\ thread # "alive"
          /\ UNCHANGED stop_info
       \/ /\ JoinCanExpire
          /\ stop_info' = [stop_info EXCEPT !.timed_out = TRUE]
    /\ caller' = "close_kafka"
    /\ UNCHANGED <<running, thread, worker, worker_tx, transaction_queue, use_kafka,
                   kafka_topic, kafka_closed, produced, calls>>
    /\ UNCHANGED detVars
    /\ UNCHANGED dbVars

\* stop(): if self.kafka_consumer: self.kafka_consumer.close()
StopCloseKafka ==
    /\ UNCHANGED <<alert_calls, threads, instances>>
    /\ caller = "close_kafka"
    /\ kafka_closed' = (kafka_closed \/ use_kafka)
    /\ caller' = "close_db"
    /\ UNCHANGED <<running, thread, worker, worker_tx, transaction_queue, use_kafka,
                   kafka_topic, produced, calls, stop_info>>
    /\ UNCHANGED detVars
    /\ UNCHANGED dbVars

\* Mutant of close_returns: a failed flush is tried again.
close_retries(o) == IF Failed(o) THEN "close_db" ELSE "return"

\* close(): flush_batches() inside try/except, with no loop: whatever the
\* flush did, close() returns to stop(), which goes on to its last statement.
close_returns(o) == "return"

\* stop(): self.db_handler.close(), which calls flush_batches() once.
StopCloseDb ==
    /\ UNCHANGED <<alert_calls, threads, instances>>
    /\ caller = "close_db"
    /\ \E o \in FlushOutcomes(transaction_batch, fraud_batch) :
          /\ Allowed(o)
          /\ FlushBatches(transaction_batch, fraud_batch, o)
          /\ stop_info' = [stop_info EXCEPT !.flushes = @ + 1, !.flushed = TRUE,
                                            !.ok = ~Failed(o)]
          /\ caller' = close_returns(o)
    /\ UNCHANGED <<stored>>
    /\ UNCHANGED <<running, thread, worker, worker_tx, transaction_queue, use_kafka,
                   kafka_topic, kafka_closed, produced, calls>>
    /\ UNCHANGED detVars

\* stop() returns, after logging "Transaction processor stopped".
StopReturn ==
    /\ UNCHANGED <<alert_calls, threads, instances>>
    /\ caller = "return"
    /\ caller' = "idle"
    /\ stop_info' = [stop_info EXCEPT !.returned = TRUE]
    /\ UNCHANGED <<running, thread, worker, worker_tx, transaction_queue, use_kafka,
                   kafka_topic, kafka_closed, produced, calls>>
    /\ UNCHANGED detVars
    /\ UNCHANGED dbVars

\* The step is taken by the worker thread: when its target returns in it (or
\* an error leaves it), one more thread has ended.
ThreadStep ==
    threads' = IF thread = "alive" /\ thread' = "dead"
               THEN [threads EXCEPT !.ended = @ + 1]
               ELSE threads

\* _process_from_queue: while self.running
WorkerWhile ==
    /\ UNCHANGED <<alert_calls, instances>>
    /\ thread = "alive" /\ worker = "while"
    /\ IF running
       THEN worker' = "get" /\ UNCHANGED thread
       ELSE worker' = "done" /\ thread' = "dead"
    /\ UNCHANGED <<running, worker_tx, transaction_queue, use_kafka, kafka_topic,
                   kafka_closed, caller, produced, calls, stop_info>>
    /\ UNCHANGED detVars
    /\ UNCHANGED dbVars
    /\ ThreadStep

\* Mutant of queue_get: the entry put last is taken.
queue_get_last(queue) ==
    [item |-> queue[Len(queue)], rest |-> SubSeq(queue, 1, Len(queue) - 1)]

\* Queue.get() on a queue that is not empty: queue.Queue is first in, first
\* out; the entry put first is returned and removed.
queue_get(queue) == [item |-> Head(queue), rest |-> Tail(queue)]

\* _process_from_queue: transaction_queue.get(block=True, timeout=1.0) returns
\* the head of the queue, or raises Empty after the timeout on an empty queue.
WorkerGet ==
    /\ UNCHANGED <<alert_calls, threads, instances>>
    /\ thread = "alive" /\ worker = "get"
    /\ IF Len(transaction_queue) > 0
       THEN /\ worker_tx' = queue_get(transaction_queue).item
            /\ transaction_queue' = queue_get(transaction_queue).rest
            /\ worker' = "process"
       ELSE /\ worker' = "while"
            /\ UNCHANGED <<worker_tx, transaction_queue>>
    /\ UNCHANGED <<running, thread, use_kafka, kafka_topic, kafka_closed, caller,
                   produced, calls, stop_info>>
    /\ UNCHANGED detVars
    /\ UNCHANGED dbVars

\* _process_from_kafka: the iterator yields the next message of the topic;
\* once the consumer is closed the iteration ends, and the thread with it.
WorkerNext ==
    /\ UNCHANGED <<alert_calls, instances>>
    /\ thread = "alive" /\ worker = "next"
    /\ \/ /\ ~kafka_closed
          /\ Len(kafka_topic) > 0
          /\ worker_tx' = Head(kafka_topic)
          /\ kafka_topic' = Tail(kafka_topic)
          /\ worker' = "check"
          /\ UNCHANGED thread
       \/ /\ kafka_closed
          /\ worker' = "done"
          /\ thread' = "dead"
          /\ UNCHANGED <<worker_tx, kafka_topic>>
    /\ UNCHANGED <<running, transaction_queue, use_kafka, kafka_closed, caller,
                   produced, calls, stop_info>>
    /\ UNCHANGED detVars
    /\ UNCHANGED dbVars
    /\ ThreadStep

\* _process_from_kafka: if not self.running: break
WorkerCheck ==
    /\ UNCHANGED <<alert_calls, instances>>
    /\ thread = "alive" /\ worker = "check"
    /\ IF running
       THEN worker' = "process" /\ UNCHANGED <<thread, worker_tx>>
       ELSE worker' = "done" /\ thread' = "dead" /\ worker_tx' = NoTransaction
    /\ UNCHANGED <<running, transaction_queue, use_kafka, kafka_topic, kafka_closed,
                   caller, produced, calls, stop_info>>
    /\ UNCHANGED detVars
    /\ UNCHANGED dbVars
    /\ ThreadStep

\* An error that leaves _process_transaction ends the thread: on the queue
\* path the loop's own `except Exception` catches it and the loop goes on,
\* _process_from_kafka has no handler.
thread_ends(escaped, kafka) == escaped /\ kafka

\* self._process_transaction(transaction), then back to the top of the loop.
WorkerProcess ==
    /\ UNCHANGED <<alert_calls, instances>>
    /\ thread = "alive" /\ worker = "process"
    /\ ProcessTransaction(worker_tx)
    /\ worker_tx' = NoTransaction
    /\ IF thread_ends(escapes(card_transactions, card_locations, worker_tx), use_kafka)
       THEN worker' = "done" /\ thread' = "dead"
       ELSE worker' = (IF use_kafka THEN "next" ELSE "while") /\ UNCHANGED thread
    /\ stop_info' = IF stop_info.flushed /\ stored' # stored
                    THEN [stop_info EXCEPT !.appended = TRUE]
                    ELSE stop_info
    /\ UNCHANGED <<running, transaction_queue, use_kafka, kafka_topic,
                   kafka_closed, caller, produced, calls>>
    /\ ThreadStep

NextProcessor ==
    \/ Deliver
    \/ Start
    \/ StopBegin
    \/ StopJoin
    \/ StopCloseKafka
    \/ StopCloseDb
    \/ StopReturn
    \/ WorkerWhile
    \/ WorkerGet
    \/ WorkerNext
    \/ WorkerCheck
    \/ WorkerProcess

\* Either path: USE_KAFKA is read from the environment.
InitProcessor == InitCore /\ use_kafka \in BOOLEAN

SpecProcessor == InitProcessor /\ [][NextProcessor]_vars

-----------------------------------------------------------------------------
(* SpecStop: the same processor fed complete transactions only, with the    *)
(* scheduling the threads get: the controlling thread goes on with the      *)
(* statements of stop() (join returns after 5 seconds at most), and the     *)
(* worker thread goes on with the tests and the get() of its loop; a worker *)
(* blocked in the consumer's iterator or inside _process_transaction, and   *)
(* the source, need never take a step.                                      *)

DeliverComplete ==
    /\ Deliver
    /\ \A i \in 1..Len(transaction_queue') : Absent(transaction_queue'[i]) = {}
    /\ \A i \in 1..Len(kafka_topic') : Absent(kafka_topic'[i]) = {}

StopSteps == StopJoin \/ StopCloseKafka \/ StopCloseDb \/ StopReturn

NextStop ==
    \/ DeliverComplete
    \/ Start
    \/ StopBegin
    \/ StopJoin
    \/ StopCloseKafka
    \/ StopCloseDb
    \/ StopReturn
    \/ WorkerWhile
    \/ WorkerGet
    \/ WorkerNext
    \/ WorkerCheck
    \/ WorkerProcess

SpecStop ==
    /\ InitProcessor
    /\ [][NextStop]_vars
    /\ WF_vars(StopSteps)
    /\ WF_vars(WorkerWhile)
    /\ WF_vars(WorkerGet)
    /\ WF_vars(WorkerCheck)

-----------------------------------------------------------------------------
(* SpecInstances: two TransactionProcessor instances in one process, each    *)
(* with its own FraudDetector; both took the module-level transaction_queue *)
(* in __init__ (get_transaction_queue returns the one Queue object), and    *)
(* the worker of each takes what it finds at the head.                      *)

SendShared ==
    /\ produced < MaxShared
    /\ produced' = produced + 1
    /\ \E tx \in SharedInputs(produced + 1) :
          transaction_queue' = send_to_queue(transaction_queue, tx).queue
    /\ UNCHANGED <<running, thread, worker, worker_tx, use_kafka, kafka_topic,
                   kafka_closed, caller, calls, stop_info>>
    /\ UNCHANGED <<alert_calls, threads, instances>>
    /\ UNCHANGED detVars
    /\ UNCHANGED dbVars

\* The worker of instance p: transaction_queue.get(), then
\* self.fraud_detector.detect_fraud(transaction).
InstanceProcess(p) ==
    /\ Len(transaction_queue) > 0
    /\ transaction_queue' = queue_get(transaction_queue).rest
    /\ instances' = [instances EXCEPT
                        ![p] = Evaluate(instances[p], queue_get(transaction_queue).item,
                                        <<12, 0, 0>>)]
    /\ UNCHANGED <<running, thread, worker, worker_tx, use_kafka, kafka_topic,
                   kafka_closed, caller, produced, calls, stop_info>>
    /\ UNCHANGED <<alert_calls, threads>>
    /\ UNCHANGED detVars
    /\ UNCHANGED dbVars

InstancesProcess == \E p \in Processors : InstanceProcess(p)

NextInstances == SendShared \/ InstancesProcess

SpecInstances == Init /\ [][NextInstances]_vars

-----------------------------------------------------------------------------
(* SpecReplay: two FraudDetector instances that start empty.  The first is   *)
(* fed transactions as they arrive; the second is fed the same sequence      *)
(* afterwards, each call at whatever time the wall clock then shows.         *)

EvaluateLive ==
    /\ Len(instances[1].evaluated) < MaxReplayTx
    /\ \E tx \in WindowInputs(Len(instances[1].evaluated) + 1), now \in WallClock :
          instances' = [instances EXCEPT ![1] = Evaluate(instances[1], tx, now)]
    /\ UNCHANGED <<alert_calls, threads>>
    /\ UNCHANGED detVars
    /\ UNCHANGED dbVars
    /\ UNCHANGED procVars

EvaluateReplay ==
    /\ Len(instances[2].evaluated) < Len(instances[1].evaluated)
    /\ \E now \in WallClock :
          instances' = [instances EXCEPT
              ![2] = Evaluate(instances[2],
                              instances[1].evaluated[Len(instances[2].evaluated) + 1], now)]
    /\ UNCHANGED <<alert_calls, threads>>
    /\ UNCHANGED detVars
    /\ UNCHANGED dbVars
    /\ UNCHANGED procVars

NextReplay == EvaluateLive \/ EvaluateReplay

SpecReplay == Init /\ [][NextReplay]_vars

-----------------------------------------------------------------------------
(* SpecQueue: the generator offers transactions to the shared queue faster  *)
(* than a consumer takes them.                                              *)

\* _generation_loop: self.send_to_queue(transaction)
Offer ==
    /\ produced < MaxOffered
    /\ produced' = produced + 1
    /\ \E tx \in QueueInputs(produced + 1) :
          transaction_queue' = send_to_queue(transaction_queue, tx).queue
    /\ UNCHANGED <<running, thread, worker, worker_tx, use_kafka, kafka_topic,
                   kafka_closed, caller, calls, stop_info>>
    /\ UNCHANGED <<alert_calls, threads, instances>>
    /\ UNCHANGED detVars
    /\ UNCHANGED dbVars

\* A consumer's transaction_queue.get().
Take ==
    /\ Len(transaction_queue) > 0
    /\ Head(transaction_queue).transaction_id <= MaxTaken
    /\ transaction_queue' = queue_get(transaction_queue).rest
    /\ UNCHANGED <<running, thread, worker, worker_tx, use_kafka, kafka_topic,
                   kafka_closed, caller, produced, calls, stop_info>>
    /\ UNCHANGED <<alert_calls, threads, instances>>
    /\ UNCHANGED detVars
    /\ UNCHANGED dbVars

NextQueue == Offer \/ Take

SpecQueue == Init /\ [][NextQueue]_vars

-----------------------------------------------------------------------------
(* Vocabulary of the properties *)

Range(list) == { list[i] : i \in 1..Len(list) }

HasReason(r, reason) == reason \in Range(r.fraud_types)

RuleOrder ==
    <<HighAmount, RapidTransactions, UnusualLocation, DuplicateTransaction, LateNightSpending>>

RuleIndex(reason) == CHOOSE i \in 1..Len(RuleOrder) : RuleOrder[i] = reason

WeightOf(reason) ==
    CASE reason = HighAmount -> 7
      [] reason = RapidTransactions -> 5
      [] reason = UnusualLocation -> 8
      [] reason = DuplicateTransaction -> 9
      [] reason = LateNightSpending -> 3

RECURSIVE SumWeights(_)
SumWeights(list) ==
    IF Len(list) = 0 THEN 0 ELSE WeightOf(Head(list)) + SumWeights(Tail(list))

Min(a, b) == IF a <= b THEN a ELSE b

\* list is a subsequence of RuleOrder
InRuleOrder(list) ==
    /\ Range(list) \subseteq Range(RuleOrder)
    /\ \A i, j \in 1..Len(list) : i < j => RuleIndex(list[i]) < RuleIndex(list[j])

\* The reasons of a joined fraud_type string: its pieces between the separators.
ReasonsOf(fraud_type) == [ i \in 1..((Len(fraud_type) + 1) \div 2) |-> fraud_type[2 * i - 1] ]

\* The transaction of the last detect_fraud call and the ones evaluated before it.
Current == evaluated[Len(evaluated)]
Earlier == { evaluated[i] : i \in 1..(Len(evaluated) - 1) }

Evaluated == result # NoResult

\* An earlier transaction of the same card, merchant and amount whose
\* timestamp is not older than the window, counted back from the current one.
EarlierDuplicate ==
    \E e \in Earlier :
        /\ e.card_number = Current.card_number
        /\ e.merchant_id = Current.merchant_id
        /\ e.amount = Current.amount
        /\ fromisoformat(e.timestamp) >=
              fromisoformat(Current.timestamp) - TRANSACTION_TIME_WINDOW

\* The card of the last detect_fraud call had never been evaluated before.
ColdStart == \A e \in Earlier : e.card_number # Current.card_number

StoredIds == { stored[i].transaction_id : i \in 1..Len(stored) }
TransactionRowIds == { row.transaction_id : row \in transactions }
FraudRowIds == BatchIds(fraudulent_transactions)

-----------------------------------------------------------------------------
(* Properties *)

\* C1 (as claimed): the verdict of detect_fraud(tx) carries the Duplicate
\* Transaction reason if and only if an earlier evaluated transaction of the
\* same card, with the same merchant id and amount, is still inside the
\* window; tx is never matched against itself.
C1_DuplicateIffEarlierMatch ==
    Evaluated => (HasReason(result, DuplicateTransaction) <=> EarlierDuplicate)

\* C2 (as claimed): the verdict of the first transaction of a card carries
\* neither the Unusual Location nor the Duplicate Transaction reason.
C2_ColdStartSafe ==
    (Evaluated /\ ColdStart) =>
        /\ ~HasReason(result, UnusualLocation)
        /\ ~HasReason(result, DuplicateTransaction)

C7_ReasonOrder ==
    /\ Evaluated =>
          /\ InRuleOrder(result.fraud_types)
          /\ HasReason(result, HighAmount) <=> Current.amount >= 5000
          /\ HasReason(result, LateNightSpending) <=>
                (Current.timestamp[1] < 5 /\ Current.amount > 100)
          /\ ReasonsOf(fraud_data_of(result).fraud_type) = result.fraud_types
    /\ ~Evaluated => \A h, r, l, d, n \in BOOLEAN :
          LET types == fraud_types_of(h, r, l, d, n)
          IN  /\ InRuleOrder(types)
              /\ Range(types) =
                    { RuleOrder[i] : i \in { k \in 1..5 : <<h, r, l, d, n>>[k] } }

\* C7 witness: a verdict with a first, a middle and the last rule triggered
\* and the second one not.
C7_Witness ==
    /\ Evaluated
    /\ result.fraud_types = <<HighAmount, UnusualLocation, DuplicateTransaction,
                              LateNightSpending>>

\* C3 (as claimed): a flush_batches call in which the connection check or an
\* insert fails leaves both batches as they were when it was called.
C3_FlushAllOrNothing ==
    (last_flush.called /\ ~last_flush.ok) =>
        /\ last_flush.transaction_batch_after = last_flush.transaction_batch_before
        /\ last_flush.fraud_batch_after = last_flush.fraud_batch_before

\* C8: is_fraudulent of a verdict is true exactly when its reason list is not
\* empty, and a transaction passed to store_transaction has (had) an entry in
\* the fraud batch exactly when its is_fraudulent is true; entries reach the
\* fraudulent_transactions table only through the fraud batch.
C8_FraudFlag ==
    /\ Evaluated => (result.is_fraudulent <=> Len(result.fraud_types) > 0)
    /\ \A i \in 1..Len(stored) :
          stored[i].is_fraudulent <=>
              stored[i].transaction_id \in BatchIds(fraud_batch) \cup FraudRowIds

\* C8 witness: a flagged and an unflagged transaction both wait in the
\* all-transactions batch, and only the flagged one is in the fraud batch.
C8_Witness ==
    \E i, j \in 1..Len(stored) :
        /\ stored[i].is_fraudulent /\ ~stored[j].is_fraudulent
        /\ {stored[i].transaction_id, stored[j].transaction_id}
              \subseteq BatchIds(transaction_batch)
        /\ stored[i].transaction_id \in BatchIds(fraud_batch)
        /\ stored[j].transaction_id \notin BatchIds(fraud_batch)
        /\ result = stored[i]

\* C9: every transaction passed to store_transaction is still in the
\* all-transactions batch or has a row in table transactions, and every flagged
\* one is still in the fraud batch or has a row in fraudulent_transactions.
C9_NeverDropped ==
    \A i \in 1..Len(stored) :
        /\ stored[i].transaction_id \in BatchIds(transaction_batch) \cup TransactionRowIds
        /\ stored[i].is_fraudulent =>
              stored[i].transaction_id \in BatchIds(fraud_batch) \cup FraudRowIds

\* C9 witness: after a flush that failed part-way through the transaction
\* inserts, one transaction is written and still batched, another is only
\* batched.
C9_Witness ==
    /\ last_flush.called /\ ~last_flush.ok
    /\ last_flush.outcome.connection
    /\ \E id \in StoredIds : id \in BatchIds(transaction_batch) \cap TransactionRowIds
    /\ \E id \in StoredIds : id \in BatchIds(transaction_batch) \ TransactionRowIds

\* C10 (as claimed): table fraudulent_transactions holds at most one row per
\* transaction id, also after a flush that failed part-way through the fraud
\* batch is retried.
C10_OneFraudRowPerId ==
    \A i, j \in 1..Len(fraudulent_transactions) :
        fraudulent_transactions[i].transaction_id = fraudulent_transactions[j].transaction_id
            => i = j

\* The rows of table transactions with this transaction id.
RowsOf(table, id) == { row \in table : row.transaction_id = id }

\* C11: table transactions holds one row per transaction id; writing again a
\* transaction whose id is stored, with the same or with another amount,
\* leaves one row for that id, holding the values written last, and leaves
\* the other rows alone; and after a flush that succeeded, also one that
\* writes again entries an earlier failed flush had written, the ids of the
\* table are the ids it held before together with the ids of the batch.
C11_InsertIdempotent ==
    /\ \A id \in TransactionRowIds : Cardinality(RowsOf(transactions, id)) = 1
    /\ \A i \in 1..Len(stored) :
          stored[i].transaction_id \in TransactionRowIds =>
             \A d \in { tx_data_of(stored[i]),
                        tx_data_of([stored[i] EXCEPT !.amount = @ + 1]) } :
                LET after == insert_transaction(transactions, d)
                IN  /\ Cardinality(RowsOf(after, d.transaction_id)) = 1
                    /\ \A row \in RowsOf(after, d.transaction_id) : row.amount = d.amount
                    /\ { row \in after : row.transaction_id # d.transaction_id }
                          = { row \in transactions : row.transaction_id # d.transaction_id }
                    /\ insert_transaction(after, d) = after
    /\ (last_flush.called /\ last_flush.ok) =>
          /\ TransactionRowIds =
                last_flush.rows_before \cup BatchIds(last_flush.transaction_batch_before)
          /\ Cardinality(transactions) = Cardinality(TransactionRowIds)

\* C11 witness: a flush succeeded that wrote again a transaction an earlier,
\* failed flush had already written.
C11_Witness ==
    /\ last_flush.called /\ last_flush.ok
    /\ flush_failures > 0
    /\ last_flush.rows_before \cap BatchIds(last_flush.transaction_batch_before) # {}
    /\ Cardinality(transactions) = Len(last_flush.transaction_batch_before)

Processes == Len(evaluated') = Len(evaluated) + 1
Processed == evaluated'[Len(evaluated')]

\* C14 (as claimed): processing a transaction that lacks an essential key
\* leaves the card's window list, the last countries and both batches as
\* they were.
C14_RejectedLeavesNoTrace ==
    [][ (Processes /\ KeyError(Processed, Essential))
        => ( /\ card_transactions' = card_transactions
             /\ card_locations' = card_locations
             /\ transaction_batch' = transaction_batch
             /\ fraud_batch' = fraud_batch
             /\ stored' = stored ) ]_vars

\* C15 (as claimed): processing a transaction that has every essential key
\* and lacks a non-essential one yields a verdict, detect_fraud not raising,
\* and the annotated transaction is passed on and appended to the
\* all-transactions batch.
C15_OptionalFieldsTolerated ==
    [][ (Processes /\ Absent(Processed) # {} /\ Absent(Processed) \subseteq NonEssential)
        => ( /\ result' # ErrorResult(Processed)
             /\ result'.transaction_id = Processed.transaction_id
             /\ stored' = Append(stored, result') ) ]_vars

\* C13 (as claimed): the worker thread ends only in a step taken with running false; a
\* get() that times out on the empty queue, and a _process_transaction call
\* in which detect_fraud or store_transaction raised, leave the thread alive
\* at the top of its loop; and a complete transaction the worker processes,
\* also after such events, is evaluated and passed to store_transaction.
C13_WorkerSurvives ==
    [][ /\ (thread = "alive" /\ thread' = "dead") => ~running
        /\ (thread = "alive" /\ worker = "get" /\ transaction_queue = <<>>
               /\ worker' # "get")
              => (thread' = "alive" /\ worker' = "while")
        /\ (Processes /\ stored' = stored)
              => (thread' = "alive" /\ worker' \in {"while", "next"})
        /\ (Processes /\ Absent(Processed) = {})
              => ( /\ result'.transaction_id = Processed.transaction_id
                   /\ stored' = Append(stored, result')
                   /\ thread' = "alive" ) ]_vars

\* The earlier evaluated transactions of the current card, by position.
EarlierOfCard ==
    { i \in 1..(Len(evaluated) - 1) : evaluated[i].card_number = Current.card_number }

Time(tx) == fromisoformat(tx.timestamp)

\* C16 (as claimed): the verdict carries the Rapid Transactions reason if and
\* only if at least 3 earlier evaluated transactions of the same card have
\* timestamps in [T - 30 s, T], T being the timestamp of the current one.
C16_RapidCountsCurrent ==
    Evaluated =>
        ( HasReason(result, RapidTransactions) <=>
            Cardinality({ i \in EarlierOfCard :
                            /\ Time(evaluated[i]) >= Time(Current) - 30
                            /\ Time(evaluated[i]) <= Time(Current) }) >= 3 )

\* C17: after an evaluation every entry kept for the card is at most the
\* window older than the evaluated transaction; a verdict carries Rapid
\* Transactions only if at least 3 earlier transactions of the card are at
\* most the window older, so older entries never count; in particular, when
\* every earlier transaction of the card is more than the window older, the
\* rule does not trigger.
C17_WindowEviction ==
    Evaluated =>
        LET kept == card_transactions[Current.card_number]
        IN  /\ \A i \in 1..Len(kept) : Time(kept[i]) >= Time(Current) - 30
            /\ HasReason(result, RapidTransactions) =>
                  Cardinality({ i \in EarlierOfCard :
                                  Time(evaluated[i]) >= Time(Current) - 30 }) >= 3
            /\ (\A i \in EarlierOfCard : Time(evaluated[i]) + 30 < Time(Current))
                  => ( /\ ~HasReason(result, RapidTransactions)
                       /\ kept = <<Current>> )

\* C17 witness: four transactions of a card at T, then one at T + 31 s, which
\* does not trigger Rapid Transactions and is the only entry kept.
C17_Witness ==
    /\ Len(evaluated) = 5
    /\ \A i \in 1..4 : /\ evaluated[i].card_number = Current.card_number
                        /\ Time(evaluated[i]) + 31 = Time(Current)
    /\ ~HasReason(result, RapidTransactions)
    /\ card_transactions[Current.card_number] = <<Current>>

C19_AlertChannelsIsolated ==
    \A i \in 1..Len(alert_calls) :
        LET call == alert_calls[i]
            results == call.returned.results
        IN  /\ ~call.returned.raised
            /\ call.returned.telegram_calls = 1
            /\ call.returned.email_calls = 1
            /\ DOMAIN results = {"telegram", "email"}
            /\ results["telegram"] \in BOOLEAN /\ results["email"] \in BOOLEAN
            /\ call.telegram \in {"False", "raise"} => results["telegram"] = FALSE
            /\ call.email \in {"False", "raise"} => results["email"] = FALSE

\* C19 witness: the Telegram channel raised, the email channel was still
\* called and succeeded.
C19_Witness ==
    \E i \in 1..Len(alert_calls) :
        /\ alert_calls[i].telegram = "raise" /\ alert_calls[i].email = "True"
        /\ alert_calls[i].returned.email_calls = 1
        /\ alert_calls[i].returned.results["telegram"] = FALSE
        /\ alert_calls[i].returned.results["email"] = TRUE

\* C20: a stop() call flushes at most once, exactly once when it has
\* returned, whether the flush succeeded or failed; and every stop() call
\* returns.
C20_FinalFlushOnce ==
    /\ [](stop_info.flushes <= 1)
    /\ []((caller = "return" \/ stop_info.returned) => stop_info.flushes = 1)
    /\ ((caller # "idle") ~> (caller = "idle" /\ stop_info.returned))

\* C20 witness: stop() has returned after its one flush failed, entries still
\* waiting in the batch.
C20_Witness ==
    /\ stop_info.returned /\ caller = "idle"
    /\ ~stop_info.ok
    /\ stop_info.flushes = 1
    /\ transaction_batch # <<>>
    /\ last_flush.called /\ ~last_flush.ok

\* stop() returns in this step.
StopReturns == ~stop_info.returned /\ stop_info'.returned

\* C4 (as claimed): when stop() returns, having been called with n
\* transactions batched, 0 < n < BATCH_SIZE, and its flush having succeeded,
\* stop() has flushed exactly once, both batches are empty and every
\* transaction processed so far has its row in table transactions.
C4_DrainOnStop ==
    [][ ( /\ StopReturns
          /\ stop_info'.ok
          /\ 0 < Cardinality(stop_info'.pending)
          /\ Cardinality(stop_info'.pending) < BATCH_SIZE )
        => ( /\ stop_info'.flushes = 1
             /\ transaction_batch' = <<>>
             /\ fraud_batch' = <<>>
             /\ stop_info'.pending \subseteq TransactionRowIds'
             /\ StoredIds' \subseteq TransactionRowIds' ) ]_vars

\* C5 (as claimed): once stop() has returned the worker thread has terminated,
\* and the worker never calls store_transaction after the final flush of
\* stop() has run.
C5_StoppedWhenStopReturns ==
    /\ stop_info.returned => thread # "alive"
    /\ ~stop_info.appended

\* C21 (as claimed): an earlier transaction of the card with the same merchant
\* id and amount, stamped d seconds before the current one, 30 < d <= 300, is
\* still in the card's list after the evaluation (the list the duplicate
\* check has searched), and the verdict carries Duplicate Transaction.
C21_DuplicateWindowFiveMinutes ==
    Evaluated =>
        \A i \in EarlierOfCard :
            ( /\ evaluated[i].merchant_id = Current.merchant_id
              /\ evaluated[i].amount = Current.amount
              /\ Time(Current) - Time(evaluated[i]) > 30
              /\ Time(Current) - Time(evaluated[i]) <= 300 )
            => ( /\ evaluated[i] \in Range(card_transactions[Current.card_number])
                 /\ HasReason(result, DuplicateTransaction) )

\* C22 (as claimed): the entries the Rapid Transactions rule counts for a
\* transaction stamped T (the card's list, whose length the rule compares)
\* are stamped within [T - 30 s, T]: an entry recorded earlier with a later
\* timestamp is not among them, and the rule triggers only if at least 3
\* earlier transactions of the card lie in that closed interval.
C22_WindowClosedAbove ==
    Evaluated =>
        LET counted == card_transactions[Current.card_number]
        IN  /\ \A i \in 1..Len(counted) :
                  /\ Time(counted[i]) >= Time(Current) - 30
                  /\ Time(counted[i]) <= Time(Current)
            /\ HasReason(result, RapidTransactions) =>
                  Cardinality({ i \in EarlierOfCard :
                                  /\ Time(evaluated[i]) >= Time(Current) - 30
                                  /\ Time(evaluated[i]) <= Time(Current) }) >= 3

\* The worker threads of the processor that are alive.
AliveThreads == threads.started - threads.ended

\* C23: at most one worker thread of the processor is alive at any time,
\* whatever start() and stop() calls the controlling thread makes (start()
\* while the thread is alive, start() after stop(), stop() whose join
\* expired): the only thread that can be alive is the one self.thread refers
\* to, so no two _process_transaction calls overlap.
C23_OneWorkerAlive ==
    /\ AliveThreads <= 1
    /\ AliveThreads = (IF thread = "alive" THEN 1 ELSE 0)
    /\ worker \in {"get", "process", "check", "next", "while"} => thread = "alive"

\* C23 witness: restart: a second worker thread is alive, the first one has
\* ended; and the stop() in between returned.
C23_Witness ==
    /\ threads.started = 2
    /\ threads.ended = 1
    /\ thread = "alive"
    /\ running

\* The cards of which instance p has evaluated a transaction.
CardsOf(p) ==
    { instances[p].evaluated[i].card_number : i \in 1..Len(instances[p].evaluated) }

\* C24 (as claimed): with two TransactionProcessor instances in one process,
\* all transactions of a card are evaluated by the same instance: no card has
\* transactions in the histories of two instances.
C24_CardsPartitioned ==
    \A p, q \in Processors : p # q => CardsOf(p) \cap CardsOf(q) = {}

\* C25: one TransactionProcessor evaluates transactions in the order of their
\* delivery (transaction ids number the deliveries): the ids of `evaluated`
\* increase; on the queue path the i-th evaluation is of the i-th delivered
\* transaction, none taken out of turn; and every evaluated transaction is
\* in the list of its card from the end of its evaluation on, hence before
\* the evaluation of any later transaction of the card begins.
C25_NoReordering ==
    /\ \A i, j \in 1..Len(evaluated) :
          i < j => evaluated[i].transaction_id < evaluated[j].transaction_id
    /\ ~use_kafka =>
          /\ \A i \in 1..Len(evaluated) : evaluated[i].transaction_id = i
          /\ worker_tx # NoTransaction => worker_tx.transaction_id = Len(evaluated) + 1
          /\ \A i \in 1..Len(transaction_queue) :
                transaction_queue[i].transaction_id =
                    produced - Len(transaction_queue) + i
    /\ \A i \in 1..Len(evaluated) :
          evaluated[i] \in Range(card_transactions[evaluated[i].card_number])

\* C25 witness: one worker thread has evaluated three transactions of one
\* card, in the order of delivery, and all three are in the card's list.
C25_Witness ==
    /\ ~use_kafka
    /\ Len(evaluated) = 3
    /\ \A i \in 1..3 : evaluated[i].transaction_id = i
    /\ \A i \in 1..3 : card_transactions["4111"][i].transaction_id = i
    /\ threads.started = 1
    /\ calls = 1

C27_FraudBatchSubset ==
    BatchIds(fraud_batch) \subseteq BatchIds(transaction_batch)

\* C28: every row of fraudulent_transactions has a row of transactions with
\* the same transaction id, after any sequence of store_transaction and
\* flush_batches calls with failures at any insert; and every entry waiting
\* in fraud_batch has its transaction still batched or already written, so
\* that the transaction row is there before the fraud row is written.
C28_FraudRowHasTransactionRow ==
    /\ FraudRowIds \subseteq TransactionRowIds
    /\ BatchIds(fraud_batch) \subseteq BatchIds(transaction_batch) \cup TransactionRowIds

\* C28 witness: a flush that succeeded wrote fraud rows from a fraud batch
\* left by an earlier flush that had failed after the transaction inserts;
\* their transaction rows were already in the table.
C28_Witness ==
    /\ last_flush.called /\ last_flush.ok
    /\ flush_failures > 0
    /\ last_flush.fraud_batch_before # <<>>
    /\ ~(BatchIds(last_flush.fraud_batch_before)
            \subseteq BatchIds(last_flush.transaction_batch_before))
    /\ BatchIds(last_flush.fraud_batch_before) \subseteq FraudRowIds

\* The evaluated transactions of card c, in the order of their evaluation.
OfCard(c) == SelectSeq(evaluated, LAMBDA t : t.card_number = c)

RECURSIVE Alone(_)
\* What a detector that starts empty returns for the last transaction of
\* list, and holds afterwards, when the transactions of list are all it is
\* given.
Alone(list) ==
    IF Len(list) = 0
    THEN [result |-> NoResult,
          card_transactions |-> [c \in Cards |-> <<>>],
          card_locations |-> [c \in Cards |-> NoCountry]]
    ELSE LET before == Alone(SubSeq(list, 1, Len(list) - 1))
         IN  detect_fraud(before.card_transactions, before.card_locations, list[Len(list)])

\* C29: the list and the last country kept for a card are those of a
\* detector given the transactions of that card alone, so an evaluation on
\* another card leaves them as they are; and the verdict of a transaction is
\* the one that detector returns, whatever transactions of other cards were
\* evaluated before it.
C29_PerCardIsolation ==
    Evaluated =>
        /\ result = Alone(OfCard(Current.card_number)).result
        /\ \A c \in Cards :
              /\ card_transactions[c] = Alone(OfCard(c)).card_transactions[c]
              /\ card_locations[c] = Alone(OfCard(c)).card_locations[c]

\* C29 witness: card A in one country, then card B in another, then card A
\* again in its own country: no Unusual Location for A, and B's entry and
\* last country are as B's evaluation left them.
C29_Witness ==
    /\ Len(evaluated) = 3
    /\ evaluated[1].card_number = "4111" /\ evaluated[1].country = "USA"
    /\ evaluated[2].card_number = "4222" /\ evaluated[2].country = "Canada"
    /\ evaluated[3].card_number = "4111" /\ evaluated[3].country = "USA"
    /\ ~HasReason(result, UnusualLocation)
    /\ card_locations["4222"] = "Canada"
    /\ card_transactions["4222"] = <<evaluated[2]>>
    /\ Len(card_transactions["4111"]) = 2

\* send_to_queue is called in this step.
Offers == produced' = produced + 1

\* C30: the shared queue never holds more than 1000 entries; send_to_queue
\* never raises; called on a queue of 1000 entries it leaves the queue, the
\* entries and their order, as it is, the offered transaction being
\* discarded; called on a shorter queue it puts the transaction at the end.
C30_QueueBackpressure ==
    /\ [](Len(transaction_queue) <= 1000)
    /\ [](\A tx \in QueueInputs(produced + 1) :
             ~send_to_queue(transaction_queue, tx).raised)
    /\ [][ Offers =>
             IF Len(transaction_queue) = 1000
             THEN transaction_queue' = transaction_queue
             ELSE /\ Len(transaction_queue') = Len(transaction_queue) + 1
                  /\ SubSeq(transaction_queue', 1, Len(transaction_queue))
                        = transaction_queue
                  /\ transaction_queue'[Len(transaction_queue')].transaction_id
                        = produced' ]_vars

\* C30 witness: the queue holds the first 1000 transactions, in order, after
\* more than 1000 were offered: the last offer was discarded.
C30_Witness ==
    /\ produced > 1000
    /\ Len(transaction_queue) = 1000
    /\ \A i \in 1..1000 : transaction_queue[i].transaction_id = i

====
